---- MODULE Spec2Model ----
(***************************************************************************)
(* crates/luajit/src/pushable.rs: the Pushable trait and its built-in      *)
(* implementations, run against a model of the Lua stack.                  *)
(*                                                                         *)
(* A native value is a record tagged with its Rust type (field t).  A Lua  *)
(* stack slot is a record tagged with its Lua kind (field k).  Integers    *)
(* are big-endian two's-complement byte strings of the width of their      *)
(* type, so that widening and checked narrowing are computed rather than   *)
(* assumed.  Floats are sign / biased exponent / fraction.                 *)
(***************************************************************************)
EXTENDS Integers, Sequences, FiniteSets, TLC

VARIABLES
    intBytes,   \* size in bytes of ffi::Integer (isize) on the build target
    raises,     \* whether utils::push_error raises instead of returning
    value,      \* the value `push` was called on
    base,       \* the stack as it was when `push` was called
    baseHeap,   \* the tables as they were when `push` was called
    stack,      \* the Lua stack, bottom first
    heap,       \* the tables of the VM, indexed by table id
    todo,       \* the calls still to be made, innermost first
    ret,        \* the c_int the outermost push returned
    status,     \* "idle", "running", "returned", "raised" or "crashed"
    lastSet     \* the most recent lua_rawseti: its target and its owner

vars == <<intBytes, raises, value, base, baseHeap, stack, heap, todo, ret,
          status, lastSet>>

----------------------------------------------------------------------------
(* Bounds of the model. *)

\* longest Vec pushed
MaxLen == 2

\* largest tuple arity enumerated exhaustively
MaxArity == 2

\* width, in bytes, in which two integers of any two types are compared
WideBytes == 9

\* arity of the largest tuple implementation (push_tuple!(A B .. P))
TupleMaxArity == 16

----------------------------------------------------------------------------
(* Integers as byte strings. *)

RECURSIVE Rep(_, _)
Rep(b, n) == IF n <= 0 THEN <<>> ELSE <<b>> \o Rep(b, n - 1)

\* the sign bit of a two's-complement byte string
Negative(bytes) == bytes[1] >= 128

\* a value of a signed or unsigned type, extended to w >= Len(bytes) bytes
Extend(signed, bytes, w) ==
    Rep(IF signed /\ Negative(bytes) THEN 255 ELSE 0, w - Len(bytes)) \o bytes

\* the low w bytes
Low(bytes, w) == SubSeq(bytes, Len(bytes) - w + 1, Len(bytes))

\* two integers, each with its signedness, denote the same number
SameNumber(s1, b1, s2, b2) ==
    Extend(s1, b1, WideBytes) = Extend(s2, b2, WideBytes)

IntTypes == {"i8", "u8", "i16", "u16", "i32", "u32", "i64", "u64", "usize"}
IntoTypes == {"i8", "u8", "i16"}
TryIntoTypes == {"u16", "i32", "u32", "i64", "u64", "usize"}

IsSigned(ty) == ty \in {"i8", "i16", "i32", "i64", "Integer"}

WidthOf(ty, ib) ==
    CASE ty \in {"i8", "u8"} -> 1
      [] ty \in {"i16", "u16"} -> 2
      [] ty \in {"i32", "u32"} -> 4
      [] ty \in {"i64", "u64"} -> 8
      [] ty \in {"usize", "Integer"} -> ib

\* `let n: Integer = self.into()`: From<i8 | u8 | i16> for isize
IntoInteger(ty, bytes, ib) == Extend(IsSigned(ty), bytes, ib)

\* std::num::TryFromIntError and its Display text
TryFromIntError == "out of range integral type conversion attempted"

\* `self.try_into()`: TryFrom<u16 | i32 | u32 | i64 | u64 | usize> for isize.
\* Ok(n) when the number fits the ib-byte signed target, Err otherwise.
TryFromInt(ty, bytes, ib) ==
    LET wide == Extend(IsSigned(ty), bytes, WideBytes)
        low  == Low(wide, ib)
    IN  IF Extend(TRUE, low, WideBytes) = wide
        THEN [ok |-> TRUE, n |-> low]
        ELSE [ok |-> FALSE, err |-> TryFromIntError]

----------------------------------------------------------------------------
(* Floats: f32 is [s, e in 0..255, m < 2^23]; Number (f64) is              *)
(* [s, e in 0..2047, hi < 2^23, lo < 2^29], the fraction being hi:lo.      *)

RECURSIVE TopBit(_)
TopBit(m) == IF m <= 1 THEN 0 ELSE 1 + TopBit(m \div 2)

\* `self as Number` for f32: exact widening
F32ToF64(f) ==
    IF f.e = 255 THEN [s |-> f.s, e |-> 2047, hi |-> f.m, lo |-> 0]
    ELSE IF f.e = 0 THEN
        IF f.m = 0 THEN [s |-> f.s, e |-> 0, hi |-> 0, lo |-> 0]
        ELSE LET p == TopBit(f.m)
             IN  [s |-> f.s, e |-> p - 149 + 1023,
                  hi |-> (f.m - 2^p) * 2^(23 - p), lo |-> 0]
    ELSE [s |-> f.s, e |-> f.e - 127 + 1023, hi |-> f.m, lo |-> 0]

\* M * 2^E with M odd
RECURSIVE Odd(_, _)
Odd(M, E) == IF M % 2 = 0 THEN Odd(M \div 2, E + 1) ELSE <<M, E>>

\* the number an f32 denotes
F32Denotes(f) ==
    IF f.e = 255 THEN [s |-> f.s, kind |-> IF f.m = 0 THEN "inf" ELSE "nan",
                       q |-> <<f.m, 0>>]
    ELSE IF f.e = 0 /\ f.m = 0 THEN [s |-> f.s, kind |-> "zero", q |-> <<0, 0>>]
    ELSE IF f.e = 0 THEN [s |-> f.s, kind |-> "finite", q |-> Odd(f.m, -149)]
    ELSE [s |-> f.s, kind |-> "finite", q |-> Odd(2^23 + f.m, f.e - 127 - 23)]

\* the number an f64 denotes, when it has at most 24 significant bits
F64Denotes(d) ==
    IF d.e = 2047 THEN [s |-> d.s,
                        kind |-> IF d.hi = 0 /\ d.lo = 0 THEN "inf" ELSE "nan",
                        q |-> <<d.hi, d.lo>>]
    ELSE IF d.e = 0 /\ d.hi = 0 /\ d.lo = 0
        THEN [s |-> d.s, kind |-> "zero", q |-> <<0, 0>>]
    ELSE IF d.e = 0 \/ d.lo /= 0 THEN [s |-> d.s, kind |-> "wide", q |-> <<0, 0>>]
    ELSE [s |-> d.s, kind |-> "finite", q |-> Odd(2^23 + d.hi, d.e - 1023 - 23)]

----------------------------------------------------------------------------
(* Native values. *)

Unit == [t |-> "unit"]
Bool(b) == [t |-> "bool", b |-> b]
IntVal(ty, bytes) == [t |-> ty, bytes |-> bytes]
Num(d) == [t |-> "Number", f |-> d]
F32(f) == [t |-> "f32", f |-> f]
Str(bytes) == [t |-> "String", bytes |-> bytes]
None == [t |-> "Option", some |-> FALSE]
Some(x) == [t |-> "Option", some |-> TRUE, inner |-> x]
Vec(elems) == [t |-> "Vec", elems |-> elems]
Ok(x) == [t |-> "Result", ok |-> TRUE, inner |-> x]
Err(e) == [t |-> "Result", ok |-> FALSE, err |-> e]
Tuple(members) == [t |-> "Tuple", members |-> members]

----------------------------------------------------------------------------
(* The VM collaborator: slots, tables and the stack primitives of ffi.     *)
(* A state of the VM is [stack, heap].                                     *)

NilSlot == [k |-> "nil"]
BooleanSlot(b) == [k |-> "boolean", b |-> b]
IntegerSlot(n) == [k |-> "integer", bytes |-> n]
NumberSlot(d) == [k |-> "number", f |-> d]
StringSlot(bytes) == [k |-> "string", bytes |-> bytes]
TableSlot(id) == [k |-> "table", id |-> id]
ErrorSlot(msg) == [k |-> "error", msg |-> msg]
Garbage == [k |-> "garbage"]

EmptyEntries == [i \in {} |-> NilSlot]

LuaPushNil(st) == Append(st, NilSlot)

\* lua_pushboolean(L, int b) pushes b != 0
LuaPushBoolean(st, b) == Append(st, BooleanSlot(b /= 0))

LuaPushInteger(st, n) == Append(st, IntegerSlot(n))

LuaPushNumber(st, d) == Append(st, NumberSlot(d))

\* lua_pushlstring(L, s, len) copies len bytes starting at s
LuaPushLString(st, s, len) == Append(st, StringSlot(SubSeq(s, 1, len)))

\* lua_createtable(L, narr, nrec): a fresh empty table, pushed
LuaCreateTableHeap(hp, narr) == Append(hp, [narr |-> narr, entries |-> EmptyEntries])
LuaCreateTableStack(st, hp) == Append(st, TableSlot(Len(hp) + 1))

\* the slot at a relative (negative) index
AbsIndex(st, idx) == Len(st) + idx + 1

\* t[n] = v; a nil value leaves no entry
SetEntry(entries, n, v) ==
    IF v = NilSlot
    THEN [i \in DOMAIN entries \ {n} |-> entries[i]]
    ELSE [i \in DOMAIN entries \cup {n} |-> IF i = n THEN v ELSE entries[i]]

\* reading t[n]
GetEntry(entries, n) == IF n \in DOMAIN entries THEN entries[n] ELSE NilSlot

Pop(st) == SubSeq(st, 1, Len(st) - 1)

----------------------------------------------------------------------------
(* The collaborators of crate:: that build and push errors. *)

\* std::any::type_name::<$integer>()
TypeName(ty) == ty

\* crate::Error::push_error(type_name, description): the error carries both
ErrorPushError(tyname, description) == <<tyname, description>>

\* utils::push_error(&err, lstate): one script-level error value built from err
UtilsPushError(st, err) == Append(st, ErrorSlot(err))

\* the c_int utils::push_error evaluates to when it returns
UtilsPushErrorCount == 1

----------------------------------------------------------------------------
(* The implementations of Pushable.  An implementation that calls ffi is   *)
(* an operator on the stack; one that calls another push names the value   *)
(* it calls push on.                                                       *)

\* a pending call `v.push(lstate)`
Call(v) == [op |-> "push", v |-> v]

\* a pending `ffi::lua_rawseti(lstate, idx, n)` of the Vec that created `owner`
RawSetI(idx, n, owner) == [op |-> "rawseti", idx |-> idx, n |-> n, owner |-> owner]

\* impl Pushable for ()
PushUnit(st) == LuaPushNil(st)

\* `self as _`: bool as c_int
BoolAsCInt(b) == IF b THEN 1 ELSE 0

\* impl Pushable for bool
PushBool(st, v) == LuaPushBoolean(st, BoolAsCInt(v.b))

\* impl Pushable for Integer
PushInteger(st, v) == LuaPushInteger(st, v.bytes)

\* push_into_integer!: `let n: Integer = self.into(); n.push(lstate)`
PushIntoIntegerCallee(v, ib) == IntVal("Integer", IntoInteger(v.t, v.bytes, ib))

\* a narrowing that wraps (`self as Integer`) instead of checking
PushTryIntoIntegerCalleeWrapping(v, ib) ==
    Ok(IntVal("Integer", Low(Extend(IsSigned(v.t), v.bytes, WideBytes), ib)))

\* push_try_into_integer!: `let n: Result<Integer, _> = ..; n.push(lstate)`
PushTryIntoIntegerCallee(v, ib) ==
    LET r == TryFromInt(v.t, v.bytes, ib)
    IN  IF r.ok THEN Ok(IntVal("Integer", r.n))
        ELSE Err(ErrorPushError(TypeName(v.t), r.err))

\* impl Pushable for Number
PushNumber(st, v) == LuaPushNumber(st, v.f)

\* impl Pushable for f32: `(self as Number).push(lstate)`
PushF32Callee(v) == Num(F32ToF64(v.f))

\* the length of a buffer read as a C string
RECURSIVE CStrLen(_)
CStrLen(bytes) ==
    IF bytes = <<>> \/ Head(bytes) = 0 THEN 0 ELSE 1 + CStrLen(Tail(bytes))

\* a text pushed as a C string (lua_pushstring), ending at the first null byte
PushStringToNul(st, v) == LuaPushLString(st, v.bytes, CStrLen(v.bytes))

\* impl Pushable for String: the buffer and its length
PushString(st, v) == LuaPushLString(st, v.bytes, Len(v.bytes))

\* an Option whose None pushes nothing
PushOptionCalleeNoneEmpty(v) == IF v.some THEN v.inner ELSE Tuple(<<>>)

\* impl Pushable for Option<T>
PushOptionCallee(v) == IF v.some THEN v.inner ELSE Unit

\* impl Pushable for Vec<T>: lua_createtable(lstate, self.len() as _, 0)
PushVecCreateHeap(hp, v) == LuaCreateTableHeap(hp, Len(v.elems))

\* impl Pushable for Vec<T>: the body of the loop, for every (i, obj)
RECURSIVE VecLoop(_, _, _)
VecLoop(elems, i, owner) ==
    IF i >= Len(elems) THEN <<>>
    ELSE <<Call(elems[i + 1]), RawSetI(-2, i + 1, owner)>>
         \o VecLoop(elems, i + 1, owner)

PushVecCalls(v, owner) == VecLoop(v.elems, 0, owner)

\* impl Pushable for Vec<T>: the value returned
PushVecCount == 1

\* a tuple pushed last member first
PushTupleCallsReversed(v) ==
    [i \in 1..Len(v.members) |-> Call(v.members[Len(v.members) + 1 - i])]

\* push_tuple!: `$($name.push(lstate);)*`
PushTupleCalls(v) == [i \in 1..Len(v.members) |-> Call(v.members[i])]

\* push_tuple!: `count!($($name)*)`
PushTupleCount(v) == Len(v.members)

\* the c_int that `v.push(lstate)` evaluates to when it returns
RECURSIVE PushCount(_, _)
PushCount(v, ib) ==
    CASE v.t \in {"unit", "bool", "Integer", "Number", "String"} -> 1
      [] v.t \in IntoTypes -> PushCount(PushIntoIntegerCallee(v, ib), ib)
      [] v.t \in TryIntoTypes -> PushCount(PushTryIntoIntegerCallee(v, ib), ib)
      [] v.t = "f32" -> PushCount(PushF32Callee(v), ib)
      [] v.t = "Option" -> PushCount(PushOptionCallee(v), ib)
      [] v.t = "Vec" -> PushVecCount
      [] v.t = "Result" ->
            IF v.ok THEN PushCount(v.inner, ib) ELSE UtilsPushErrorCount
      [] v.t = "Tuple" -> PushTupleCount(v)

----------------------------------------------------------------------------
(* The values push is called on. *)

PlatformIntegerBytes == {4, 8}

\* zero, all ones, the largest with a clear top bit, the top bit alone
IntSamples(ty, ib) ==
    LET w == WidthOf(ty, ib)
    IN  {IntVal(ty, b) : b \in {Rep(0, w), Rep(255, w),
                                <<127>> \o Rep(255, w - 1),
                                <<128>> \o Rep(0, w - 1)}}

F32Samples ==
    {F32(f) : f \in {[s |-> 0, e |-> 0, m |-> 0], [s |-> 1, e |-> 0, m |-> 0],
                     [s |-> 0, e |-> 127, m |-> 2^22],
                     [s |-> 1, e |-> 254, m |-> 2^23 - 1],
                     [s |-> 0, e |-> 0, m |-> 1],
                     [s |-> 0, e |-> 0, m |-> 2^22 + 1],
                     [s |-> 1, e |-> 255, m |-> 0],
                     [s |-> 0, e |-> 255, m |-> 2^22]}}

NumberSamples ==
    {Num(d) : d \in {[s |-> 0, e |-> 0, hi |-> 0, lo |-> 0],
                     [s |-> 1, e |-> 2046, hi |-> 2^23 - 1, lo |-> 2^29 - 1],
                     [s |-> 0, e |-> 0, hi |-> 0, lo |-> 1],
                     [s |-> 0, e |-> 2047, hi |-> 2^22, lo |-> 0]}}

StringSamples == {Str(b) : b \in {<<>>, <<97>>, <<0, 97, 98>>, <<97, 0, 98>>}}

LosslessTypes ==
    {"unit", "bool", "Integer", "i8", "u8", "i16", "Number", "f32", "String"}

Scalars(ib) ==
    {Unit, Bool(TRUE), Bool(FALSE)} \cup F32Samples \cup NumberSamples
    \cup StringSamples
    \cup UNION {IntSamples(ty, ib) : ty \in IntTypes \cup {"Integer"}}

MinusOne == IntVal("i8", <<255>>)
I8Max == IntVal("i8", <<127>>)
U64Max == IntVal("u64", Rep(255, 8))
U64Zero == IntVal("u64", Rep(0, 8))
NulA == Str(<<0, 97>>)
Boom == <<"boom">>

\* members of the first level of composites: one of them narrows and fails
MemberPool == {Unit, Bool(TRUE), MinusOne, U64Max, NulA}

SeqsUpTo(S, n) == UNION {[1..k -> S] : k \in 0..n}

TuplesOver(S, n) == {Tuple(ms) : ms \in UNION {[1..k -> S] : k \in 1..n}}

\* a Vec<T> holds values of one type T
VecsOver(pools, n) == {Vec(es) : es \in UNION {SeqsUpTo(pool, n) : pool \in pools}}

Level1 ==
    {None} \cup {Some(x) : x \in MemberPool}
    \cup {Ok(x) : x \in MemberPool} \cup {Err(Boom)}
    \cup TuplesOver(MemberPool, MaxArity)
    \cup VecsOver({{MinusOne, I8Max}, {NulA, Str(<<97>>)}, {Unit},
                   {U64Zero, U64Max}, {Bool(TRUE)}}, MaxLen)

Pair == Tuple(<<MinusOne, Bool(TRUE)>>)
PairB == Tuple(<<I8Max, Bool(FALSE)>>)
TableAndByte == Tuple(<<Vec(<<I8Max>>), MinusOne>>)

NestPool ==
    {None, Some(MinusOne), Err(Boom), Ok(Bool(TRUE)), Vec(<<MinusOne, I8Max>>),
     Vec(<<>>), Pair, Tuple(<<NulA>>), MinusOne}

Level2 ==
    {Some(x) : x \in NestPool} \cup {Ok(x) : x \in NestPool}
    \cup TuplesOver(NestPool, MaxArity)
    \cup VecsOver({{Pair, PairB}, {None, Some(MinusOne)},
                   {Vec(<<>>), Vec(<<MinusOne>>)}, {Ok(MinusOne), Err(Boom)},
                   {TableAndByte}, {Tuple(<<MinusOne>>)}, {Some(Pair), None}},
                  MaxLen)

Level3 ==
    {Vec(<<Vec(<<Vec(<<MinusOne>>)>>)>>), Tuple(<<Tuple(<<Pair, Unit>>), NulA>>),
     Some(Some(None)), Ok(Some(Pair)), Some(Vec(<<Pair>>)),
     Tuple(<<Vec(<<TableAndByte>>), Unit>>), Vec(<<Vec(<<Pair>>)>>)}

\* the k-th member of the wide tuples: lossless scalars in rotation
Rotation(ib) ==
    <<MinusOne, Bool(FALSE), NulA, Unit, IntVal("u8", <<255>>),
      IntVal("i16", <<128, 0>>), IntVal("Integer", <<128>> \o Rep(0, ib - 1)),
      F32([s |-> 1, e |-> 127, m |-> 2^22]),
      Num([s |-> 0, e |-> 1023, hi |-> 0, lo |-> 1])>>
WideTuples(ib) ==
    {Tuple([i \in 1..k |-> Rotation(ib)[((i - 1) % Len(Rotation(ib))) + 1]]) :
        k \in 1..TupleMaxArity}

Values(ib) == Scalars(ib) \cup Level1 \cup Level2 \cup Level3 \cup WideTuples(ib)

\* the stacks push is called with: empty, or holding earlier slots and a table
BaseStates ==
    {[stack |-> <<>>, heap |-> <<>>],
     [stack |-> <<NilSlot>>, heap |-> <<>>],
     [stack |-> <<TableSlot(1), BooleanSlot(TRUE)>>,
      heap |-> <<[narr |-> 0, entries |-> SetEntry(EmptyEntries, 1, NilSlot)]>>],
     [stack |-> <<StringSlot(<<97>>), TableSlot(1)>>,
      heap |-> <<[narr |-> 1,
                  entries |-> SetEntry(EmptyEntries, 1, BooleanSlot(FALSE))]>>]}

NoValue == [t |-> "none"]
NoSet == [target |-> NilSlot, at |-> 0, owner |-> 0]

----------------------------------------------------------------------------
(* One step of a call of push: an implementation body up to the calls of   *)
(* push it makes, or one ffi call.  A machine state m is                   *)
(* [stack, heap, todo, status, lastSet]; a step gives the set of states    *)
(* that can follow.                                                        *)

Callee(m) == Head(m.todo).v

\* an implementation whose body is one ffi call
Leaf(m, newStack) == {[m EXCEPT !.stack = newStack, !.todo = Tail(m.todo)]}

\* an implementation whose body is calls of push
Delegate(m, calls) == {[m EXCEPT !.todo = calls \o Tail(m.todo)]}

StepUnit(m) == Leaf(m, PushUnit(m.stack))

StepBool(m) == Leaf(m, PushBool(m.stack, Callee(m)))

StepInteger(m) == Leaf(m, PushInteger(m.stack, Callee(m)))

StepIntoInteger(m, ib) == Delegate(m, <<Call(PushIntoIntegerCallee(Callee(m), ib))>>)

StepTryIntoInteger(m, ib) ==
    Delegate(m, <<Call(PushTryIntoIntegerCallee(Callee(m), ib))>>)

StepNumber(m) == Leaf(m, PushNumber(m.stack, Callee(m)))

StepF32(m) == Delegate(m, <<Call(PushF32Callee(Callee(m)))>>)

StepString(m) == Leaf(m, PushString(m.stack, Callee(m)))

StepOption(m) == Delegate(m, <<Call(PushOptionCallee(Callee(m)))>>)

\* Vec<T>::push up to its loop: the table is created and pushed
StepVec(m) ==
    {[m EXCEPT !.heap = PushVecCreateHeap(m.heap, Callee(m)),
               !.stack = LuaCreateTableStack(m.stack, m.heap),
               !.todo = PushVecCalls(Callee(m), Len(m.heap) + 1) \o Tail(m.todo)]}

\* ffi::lua_rawseti(lstate, idx, n): t[n] = top, top popped, t the slot at idx.
\* With no table at idx the call is undefined: the process may fault, the
\* store may land outside the stack, or it may damage a slot of the stack.
StepRawSetI(m) ==
    LET c    == Head(m.todo)
        at   == AbsIndex(m.stack, c.idx)
        t    == m.stack[at]
        v    == m.stack[Len(m.stack)]
        seen == [m EXCEPT !.lastSet = [target |-> t, at |-> at, owner |-> c.owner]]
    IN  IF t.k = "table"
        THEN {[seen EXCEPT !.heap[t.id].entries = SetEntry(@, c.n, v),
                           !.stack = Pop(m.stack),
                           !.todo = Tail(m.todo)]}
        ELSE {[seen EXCEPT !.status = "crashed"]}
             \cup {[seen EXCEPT !.stack = Pop(m.stack), !.todo = Tail(m.todo)]}
             \cup {[seen EXCEPT !.stack = Pop([m.stack EXCEPT ![j] = Garbage]),
                                !.todo = Tail(m.todo)] :
                      j \in 1..(Len(m.stack) - 1)}

\* a Result whose Ok arm pushes nil in place of the value
StepResultOkDropsValue(m) == Delegate(m, <<Call(Unit)>>)

\* Result<T, E>::push, Ok(value) => value.push(lstate)
StepResultOk(m) == Delegate(m, <<Call(Callee(m).inner)>>)

\* Result<T, E>::push, Err(err) => push_error(&err, lstate), which either
\* raises, abandoning every caller, or returns
StepResultErr(m, rs) ==
    LET pushed == UtilsPushError(m.stack, Callee(m).err)
    IN  IF rs
        THEN {[m EXCEPT !.stack = pushed, !.todo = <<>>, !.status = "raised"]}
        ELSE {[m EXCEPT !.stack = pushed, !.todo = Tail(m.todo)]}

StepTuple(m) == Delegate(m, PushTupleCalls(Callee(m)))

\* the start of `v.push(lstate)` on a stack
Called(v, st, hp) ==
    [stack |-> st, heap |-> hp, todo |-> <<Call(v)>>, status |-> "running",
     lastSet |-> NoSet]

\* the states a running call can step to
Steps(m, ib, rs) ==
    LET h == Head(m.todo) IN
    IF h.op = "rawseti" THEN StepRawSetI(m)
    ELSE CASE h.v.t = "unit" -> StepUnit(m)
           [] h.v.t = "bool" -> StepBool(m)
           [] h.v.t = "Integer" -> StepInteger(m)
           [] h.v.t \in IntoTypes -> StepIntoInteger(m, ib)
           [] h.v.t \in TryIntoTypes -> StepTryIntoInteger(m, ib)
           [] h.v.t = "Number" -> StepNumber(m)
           [] h.v.t = "f32" -> StepF32(m)
           [] h.v.t = "String" -> StepString(m)
           [] h.v.t = "Option" -> StepOption(m)
           [] h.v.t = "Vec" -> StepVec(m)
           [] h.v.t = "Result" ->
                 IF h.v.ok THEN StepResultOk(m) ELSE StepResultErr(m, rs)
           [] h.v.t = "Tuple" -> StepTuple(m)

\* the states in which a call can end: returned, raised or crashed
RECURSIVE Outcomes(_, _, _)
Outcomes(m, ib, rs) ==
    IF m.status /= "running" THEN {m}
    ELSE IF m.todo = <<>> THEN {[m EXCEPT !.status = "returned"]}
    ELSE UNION {Outcomes(n, ib, rs) : n \in Steps(m, ib, rs)}

----------------------------------------------------------------------------
(* The state machine: one call of push by the embedding layer. *)

Init ==
    /\ intBytes \in PlatformIntegerBytes
    /\ raises \in BOOLEAN
    /\ \E b \in BaseStates :
          /\ stack = b.stack
          /\ heap = b.heap
          /\ base = b.stack
          /\ baseHeap = b.heap
    /\ value = NoValue
    /\ todo = <<>>
    /\ ret = -1     \* nothing returned yet
    /\ status = "idle"
    /\ lastSet = NoSet

Machine ==
    [stack |-> stack, heap |-> heap, todo |-> todo, status |-> status,
     lastSet |-> lastSet]

Running == status = "running" /\ todo /= <<>>
Calling(types) == Running /\ Head(todo).op = "push" /\ Head(todo).v.t \in types

Become(successors) ==
    /\ \E n \in successors :
          /\ stack' = n.stack
          /\ heap' = n.heap
          /\ todo' = n.todo
          /\ status' = n.status
          /\ lastSet' = n.lastSet
    /\ UNCHANGED <<intBytes, raises, value, base, baseHeap, ret>>

\* the embedding layer calls v.push(lstate)
CallPush ==
    /\ status = "idle"
    /\ \E v \in Values(intBytes) :
          /\ value' = v
          /\ todo' = Called(v, stack, heap).todo
    /\ status' = "running"
    /\ UNCHANGED <<intBytes, raises, base, baseHeap, stack, heap, ret, lastSet>>

DoPushUnit == Calling({"unit"}) /\ Become(StepUnit(Machine))

DoPushBool == Calling({"bool"}) /\ Become(StepBool(Machine))

DoPushInteger == Calling({"Integer"}) /\ Become(StepInteger(Machine))

DoPushIntoInteger == Calling(IntoTypes) /\ Become(StepIntoInteger(Machine, intBytes))

DoPushTryIntoInteger ==
    Calling(TryIntoTypes) /\ Become(StepTryIntoInteger(Machine, intBytes))

DoPushNumber == Calling({"Number"}) /\ Become(StepNumber(Machine))

DoPushF32 == Calling({"f32"}) /\ Become(StepF32(Machine))

DoPushString == Calling({"String"}) /\ Become(StepString(Machine))

DoPushOption == Calling({"Option"}) /\ Become(StepOption(Machine))

DoPushVec == Calling({"Vec"}) /\ Become(StepVec(Machine))

DoRawSetI == Running /\ Head(todo).op = "rawseti" /\ Become(StepRawSetI(Machine))

DoPushResultOk ==
    Calling({"Result"}) /\ Head(todo).v.ok /\ Become(StepResultOk(Machine))

DoPushResultErr ==
    Calling({"Result"}) /\ ~Head(todo).v.ok /\ Become(StepResultErr(Machine, raises))

DoPushTuple == Calling({"Tuple"}) /\ Become(StepTuple(Machine))

\* the outermost push returns its count
Return ==
    /\ status = "running"
    /\ todo = <<>>
    /\ status' = "returned"
    /\ ret' = PushCount(value, intBytes)
    /\ UNCHANGED <<intBytes, raises, value, base, baseHeap, stack, heap, todo,
                   lastSet>>

Next ==
    \/ CallPush
    \/ DoPushUnit
    \/ DoPushBool
    \/ DoPushInteger
    \/ DoPushIntoInteger
    \/ DoPushTryIntoInteger
    \/ DoPushNumber
    \/ DoPushF32
    \/ DoPushString
    \/ DoPushOption
    \/ DoPushVec
    \/ DoRawSetI
    \/ DoPushResultOk
    \/ DoPushResultErr
    \/ DoPushTuple
    \/ Return

Spec == Init /\ [][Next]_vars

----------------------------------------------------------------------------
(* What the properties speak of. *)

Returned == status = "returned"
Ended == status \in {"returned", "raised", "crashed"}

\* the slots above those the call found
Added == SubSeq(stack, Len(base) + 1, Len(stack))

\* the slots the call found are still there, as they were
BaseKept == Len(stack) >= Len(base) /\ SubSeq(stack, 1, Len(base)) = base

\* the tables the call found are as they were
BaseTablesKept ==
    /\ Len(heap) >= Len(baseHeap)
    /\ \A id \in 1..Len(baseHeap) : heap[id] = baseHeap[id]

\* the number lies in the range of an ib-byte signed integer
Fits(v, ib) ==
    LET w    == Len(v.bytes)
        neg  == IsSigned(v.t) /\ Negative(v.bytes)
        high == SubSeq(v.bytes, 1, w - ib)
        low  == Low(v.bytes, ib)
    IN  \/ w < ib
        \/ /\ \A i \in 1..Len(high) : high[i] = IF neg THEN 255 ELSE 0
           /\ (low[1] >= 128) <=> neg

\* a slot holds the value of a scalar with a lossless conversion
HoldsScalar(slot, v, ib) ==
    CASE v.t = "unit" -> slot = NilSlot
      [] v.t = "bool" -> slot.k = "boolean" /\ slot.b = v.b
      [] v.t \in {"Integer", "i8", "u8", "i16"} ->
            /\ slot.k = "integer"
            /\ Len(slot.bytes) = ib
            /\ SameNumber(TRUE, slot.bytes, IsSigned(v.t), v.bytes)
      [] v.t = "Number" -> slot.k = "number" /\ slot.f = v.f
      [] v.t = "f32" -> slot.k = "number" /\ F64Denotes(slot.f) = F32Denotes(v.f)
      [] v.t = "String" ->
            /\ slot.k = "string"
            /\ Len(slot.bytes) = Len(v.bytes)
            /\ slot.bytes = v.bytes
      [] OTHER -> FALSE

\* a slot holds the converted value of v, tables read through the heap hp
RECURSIVE Holds(_, _, _, _)
Holds(slot, v, hp, ib) ==
    CASE v.t \in LosslessTypes -> HoldsScalar(slot, v, ib)
      [] v.t \in TryIntoTypes ->
            IF Fits(v, ib)
            THEN /\ slot.k = "integer"
                 /\ SameNumber(TRUE, slot.bytes, IsSigned(v.t), v.bytes)
            ELSE slot = ErrorSlot(<<v.t, TryFromIntError>>)
      [] v.t = "Option" -> IF v.some THEN Holds(slot, v.inner, hp, ib) ELSE slot = NilSlot
      [] v.t = "Result" ->
            IF v.ok THEN Holds(slot, v.inner, hp, ib) ELSE slot = ErrorSlot(v.err)
      [] v.t = "Vec" ->
            /\ slot.k = "table"
            /\ DOMAIN hp[slot.id].entries \subseteq 1..Len(v.elems)
            /\ \A i \in 1..Len(v.elems) :
                  Holds(GetEntry(hp[slot.id].entries, i), v.elems[i], hp, ib)
      [] v.t = "Tuple" ->
            Len(v.members) = 1 /\ Holds(slot, v.members[1], hp, ib)

RECURSIVE SumCounts(_, _)
SumCounts(members, ib) ==
    IF members = <<>> THEN 0
    ELSE PushCount(Head(members), ib) + SumCounts(Tail(members), ib)

\* no tuple anywhere in the value
RECURSIVE TupleFree(_)
TupleFree(v) ==
    CASE v.t = "Tuple" -> FALSE
      [] v.t = "Option" -> ~v.some \/ TupleFree(v.inner)
      [] v.t = "Result" -> ~v.ok \/ TupleFree(v.inner)
      [] v.t = "Vec" -> \A i \in 1..Len(v.elems) : TupleFree(v.elems[i])
      [] OTHER -> TRUE

\* how a call of push on v, made on the stack this call was made on, can end
EndsOf(v) ==
    {[stack |-> m.stack, heap |-> m.heap, status |-> m.status] :
        m \in Outcomes(Called(v, base, baseHeap), intBytes, raises)}

HowEnded == [stack |-> stack, heap |-> heap, status |-> status]

----------------------------------------------------------------------------
(* The properties. *)

\* C1: for every implementation and every nesting, the count push returns is
\* the number of slots it added: height after = height before + count.
C1_CountIsSlotsAdded == Returned => Len(stack) = Len(base) + ret

\* C2: pushing a Vec<T> of length N adds exactly one slot, the new table,
\* returns 1, and the table holds at index i (1-based) the converted value of
\* the i-th element and nothing outside 1..N.
C2_VecPushesOneFilledTable ==
    (Returned /\ value.t = "Vec") =>
        /\ ret = 1
        /\ stack = Append(base, TableSlot(Len(baseHeap) + 1))
        /\ Holds(stack[Len(stack)], value, heap, intBytes)

\* C3: a narrowing integer inside the range of Integer is pushed as one integer
\* slot with the same number and push returns 1; outside the range no number
\* is ever pushed, exactly one error value carrying the type's name and the
\* conversion failure is pushed, and a count that is returned is 1.
C3_NarrowingIntegers ==
    value.t \in TryIntoTypes =>
        /\ BaseKept
        /\ heap = baseHeap
        /\ \A i \in 1..Len(Added) :
              Added[i].k = IF Fits(value, intBytes) THEN "integer" ELSE "error"
        /\ Fits(value, intBytes) => status /= "raised"
        /\ status \in {"returned", "raised"} =>
              /\ Len(Added) = 1
              /\ Holds(Added[1], value, heap, intBytes)
              /\ Fits(value, intBytes) => Len(Added[1].bytes) = intBytes
        /\ Returned => ret = 1

C3_OutOfRangePushed ==
    /\ Returned
    /\ value.t = "u64"
    /\ ~Fits(value, intBytes)
    /\ Added = <<ErrorSlot(<<"u64", TryFromIntError>>)>>

\* C4: pushing Ok(v) ends as pushing v directly ends, with the same count;
\* pushing Err(e) pushes exactly one error value built from e and never a slot
\* of a success value.
C4_ResultOkAsValueErrAsError ==
    value.t = "Result" =>
        IF value.ok
        THEN /\ Ended => HowEnded \in EndsOf(value.inner)
             /\ Returned => ret = PushCount(value.inner, intBytes)
        ELSE /\ heap = baseHeap
             /\ stack \in {base, Append(base, ErrorSlot(value.err))}
             /\ Ended => stack = Append(base, ErrorSlot(value.err))
             /\ Returned => ret = 1

C4_OkOfPairPushed == Returned /\ value = Ok(Pair) /\ Len(Added) = Len(Pair.members)

\* C5: a tuple of arity k whose members are all lossless scalars returns k and
\* adds exactly k slots, the i-th from the bottom of the new region holding
\* the i-th member, and creates no table.
C5_TupleOfScalars ==
    (/\ Returned
     /\ value.t = "Tuple"
     /\ \A i \in 1..Len(value.members) : value.members[i].t \in LosslessTypes) =>
        /\ ret = Len(value.members)
        /\ BaseKept
        /\ Len(Added) = Len(value.members)
        /\ \A i \in 1..Len(value.members) :
              HoldsScalar(Added[i], value.members[i], intBytes)
        /\ heap = baseHeap

C5_WidestTuplePushed ==
    /\ Returned
    /\ value.t = "Tuple"
    /\ Len(value.members) = TupleMaxArity
    /\ Len(Added) = TupleMaxArity

\* C6: the count a tuple's push returns is the sum of the counts its members'
\* own pushes return.
C6_TupleCountIsSumOfMembers ==
    (Returned /\ value.t = "Tuple") => ret = SumCounts(value.members, intBytes)

\* C7: from the same stack, pushing None ends as pushing () ends, with the
\* same count, and pushing Some(x) ends as pushing x ends, with the same count.
C7_OptionAsUnitOrValue ==
    value.t = "Option" =>
        LET same == IF value.some THEN value.inner ELSE Unit
        IN  /\ Ended => HowEnded \in EndsOf(same)
            /\ Returned => ret = PushCount(same, intBytes)
            /\ (Returned /\ ~value.some) =>
                  stack = Append(base, NilSlot) /\ heap = baseHeap /\ ret = 1

C7_NonePushed == Returned /\ value = None /\ Added = <<NilSlot>>

\* C8: pushing an Option<T> always pushes exactly one slot and returns 1.
C8_OptionAlwaysOneSlot ==
    (Returned /\ value.t = "Option") => Len(stack) = Len(base) + 1 /\ ret = 1

\* C8, amended: a push of None, or of Some(x) with no tuple in x, that returns
\* has pushed exactly one slot and returns 1.
C8_TupleFreeOptionOneSlot ==
    (Returned /\ value.t = "Option" /\ TupleFree(value)) =>
        BaseKept /\ Len(Added) = 1 /\ ret = 1

C8_SomeOfVecPushed ==
    /\ Returned
    /\ value = Some(Vec(<<MinusOne, I8Max>>))
    /\ Len(Added) = 1
    /\ Added[1].k = "table"

\* C9: a lossless scalar never takes the error path, returns 1 and adds one
\* slot holding the value: nil, the truth value, the integer widened, the
\* float widened, the bytes of the text with their length.
C9_LosslessScalars ==
    value.t \in LosslessTypes =>
        /\ status \in {"running", "returned"}
        /\ BaseKept
        /\ heap = baseHeap
        /\ \A i \in 1..Len(Added) : Added[i].k /= "error"
        /\ Returned =>
              /\ ret = 1
              /\ Len(Added) = 1
              /\ HoldsScalar(Added[1], value, intBytes)

C9_TextWithNulPushed ==
    /\ Returned
    /\ value = Str(<<0, 97, 98>>)
    /\ Added = <<StringSlot(<<0, 97, 98>>)>>

\* C10: during and after a push the slots and tables found on the stack are
\* untouched, every raw-set targets the table created by the conversion that
\* issues it, and that table lies above the slots found.
C10_FrameKept ==
    /\ BaseKept
    /\ BaseTablesKept
    /\ lastSet /= NoSet =>
          /\ lastSet.target = TableSlot(lastSet.owner)
          /\ lastSet.owner > Len(baseHeap)
          /\ lastSet.at > Len(base)

====
